---------------------------- MODULE Spec2Model ----------------------------
(***************************************************************************)
(* A model of the torchkit utilities:                                      *)
(*   - torchkit/core/fileio/filedir.py   (create_dirs, delete_files,       *)
(*     get_latest_file, the is_*_file predicates)                          *)
(*   - torchkit/models/classifiers/resnet.py (registries, ResNet.__init__) *)
(*   - torchkit/datasets/waymo/utils/copy_annotations.py                   *)
(*   - torchkit/datasets/waymo/utils/convert_annotations_yolo.py           *)
(*   - torchkit/core/layer/mlp.py (Mlp)                                    *)
(*                                                                         *)
(* A string is a sequence of tokens.  A token stands for a run of          *)
(* characters that is used atomically ("front", "_easy", "txt", ...); the  *)
(* separator "/" and the dot "." are always tokens of their own, so that   *)
(* str.replace, str.endswith, `in` and os.path.splitext act on token       *)
(* sequences exactly as they act on the characters the tokens stand for.   *)
(* A filesystem path is a sequence of names, a name is a string.           *)
(***************************************************************************)
EXTENDS Integers, Sequences, FiniteSets, TLC

VARIABLES
    fs,          \* the filesystem: path -> [kind, ino, ...]
    nextIno,     \* the next inode number the filesystem hands out
    pc,          \* position of the running call / script
    args,        \* the arguments of the running call
    todo,        \* what the running loop has still to visit
    done,        \* what the running loop has visited, in order
    ret,         \* the value returned (None until the call returns)
    log,         \* records written to the logger
    status,      \* exit status of the process (None while it runs)
    fs0,         \* the filesystem as it was when the call was made
    registry,    \* BACKBONES, CLASSIFIERS, MODELS: registrations made so far
    self,        \* the attributes of the instance being constructed
    calls,       \* the methods the running call has called, in order
    workers      \* joblib.Parallel: the state of each dispatched task

vars == <<fs, nextIno, pc, args, todo, done, ret, log, status, fs0,
          registry, self, calls, workers>>

\* Python values that may be None.
None == [none |-> TRUE]
Some(v) == [some |-> v]
Dot == "."

(***************************************************************************)
(* Bounds of the model.                                                    *)
(***************************************************************************)
MaxPaths == 2

(***************************************************************************)
(* Sequences.                                                              *)
(***************************************************************************)
Range(s) == {s[i] : i \in 1..Len(s)}

SeqsUpTo(S, n) == UNION {[1..k -> S] : k \in 0..n}

\* All orders in which the distinct elements of a set can be listed.
Perms(S) == {s \in [1..Cardinality(S) -> S] : Range(s) = S}

IsPrefix(p, q) == Len(p) <= Len(q) /\ SubSeq(q, 1, Len(p)) = p

EndsWith(s, suf) ==
    Len(suf) <= Len(s) /\ SubSeq(s, Len(s) - Len(suf) + 1, Len(s)) = suf

(***************************************************************************)
(* The filesystem.  fs maps every path of a finite universe to an entry;   *)
(* kind "none" says the path does not exist.  The empty path is the        *)
(* working directory, which always exists.                                 *)
(***************************************************************************)
Parent(p) == SubSeq(p, 1, Len(p) - 1)

NoEntry == [kind |-> "none", ino |-> 0]

Kind(f, p) ==
    IF p = <<>> THEN "dir"
    ELSE IF p \in DOMAIN f THEN f[p].kind ELSE "none"

\* os.path.exists
Exists(f, p) == Kind(f, p) # "none"

\* os.path.isfile
IsFile(f, p) == Kind(f, p) = "file"

\* os.path.isdir
IsDir(f, p) == Kind(f, p) = "dir"

\* Paths strictly below d.
Below(f, d) == {p \in DOMAIN f : p # d /\ IsPrefix(d, p)}

\* The filesystems over universe U: a path whose parent is a directory has
\* one of the kinds `allowed` gives it, any other path does not exist.  The
\* entries are numbered by inode in the order of `index`.
WellFormed(k, allowed(_)) ==
    \A p \in DOMAIN k :
        IF Len(p) = 1 \/ k[Parent(p)] = "dir"
        THEN k[p] \in allowed(p)
        ELSE k[p] = "none"

FileSystems(U, allowed(_), index(_)) ==
    {[p \in U |-> IF k[p] = "none" THEN NoEntry
                  ELSE [kind |-> k[p], ino |-> index(p)]] :
        k \in {x \in [U -> {"none", "dir", "file"}] : WellFormed(x, allowed)}}

Name(p) == p[Len(p)]

\* A name glob treats as hidden: it starts with a dot.
Hidden(name) == name # <<>> /\ name[1] = Dot

(***************************************************************************)
(* glob.glob(pattern, recursive).  A pattern is a sequence of components:  *)
(* Lit(name) is a name without wildcard, Star(suffix) is "*" + suffix,     *)
(* DStar is "**".  "*" does not match a hidden name; "**" means "this      *)
(* directory and everything below it that is not hidden" when recursive    *)
(* is true and is an ordinary "*" otherwise.                               *)
(***************************************************************************)
Lit(name) == [kind |-> "lit", s |-> name]
Star(suffix) == [kind |-> "star", s |-> suffix]
DStar == [kind |-> "dstar", s |-> <<>>]

LitPath(p) == [i \in 1..Len(p) |-> Lit(p[i])]

Listing(f, base, suffix) ==
    {p \in DOMAIN f :
        /\ Exists(f, p)
        /\ Parent(p) = base
        /\ IsDir(f, base)
        /\ ~Hidden(Name(p))
        /\ EndsWith(Name(p), suffix)}

VisibleBelow(f, base) ==
    {p \in Below(f, base) :
        Exists(f, p) /\ \A i \in (Len(base) + 1)..Len(p) : ~Hidden(p[i])}

RECURSIVE GlobFrom(_, _, _, _)
GlobFrom(f, base, pat, recursive) ==
    IF pat = <<>> THEN (IF Exists(f, base) THEN {base} ELSE {})
    ELSE LET c == Head(pat)
             rest == Tail(pat)
         IN  CASE c.kind = "lit" ->
                    GlobFrom(f, base \o <<c.s>>, rest, recursive)
               [] c.kind = "dstar" /\ recursive ->
                    UNION {GlobFrom(f, q, rest, recursive) :
                              q \in (IF IsDir(f, base) THEN {base} ELSE {})
                                        \cup VisibleBelow(f, base)}
               [] OTHER ->
                    UNION {GlobFrom(f, q, rest, recursive) :
                              q \in Listing(f, base, c.s)}

Glob(f, pattern, recursive) == GlobFrom(f, <<>>, pattern, recursive)

(***************************************************************************)
(* torchkit.core.utils.unique is not among the sources.  It is modelled    *)
(* as: the distinct elements of the list, in an order the model does not   *)
(* fix (list(set(..)) and an order-preserving pass are both covered).      *)
(***************************************************************************)
Unique(l) == Perms(Range(l))

(***************************************************************************)
(* create_dirs                                                             *)
(***************************************************************************)
A == <<"a">>
B == <<"b">>
C == <<"c">>
D == <<"d">>
F == <<"f">>

CreateUniverse == {<<A>>, <<A, B>>, <<A, B, C>>, <<A, F>>, <<D>>}

CreateIndex(p) ==
    CASE p = <<A>>       -> 1
      [] p = <<A, B>>    -> 2
      [] p = <<A, B, C>> -> 3
      [] p = <<A, F>>    -> 4
      [] p = <<D>>       -> 5

AnyKind(p) == {"none", "dir", "file"}

\* shutil.rmtree(d): d and everything below it go; a path that is no
\* directory raises NotADirectoryError and removes nothing.
RmTreeRaises(f, d) == ~IsDir(f, d)

RmTree(f, d) ==
    [p \in DOMAIN f |-> IF IsPrefix(d, p) THEN NoEntry ELSE f[p]]

\* os.makedirs(d): creates d and every missing ancestor.  mkdir below a
\* regular file raises NotADirectoryError; mkdir of an existing path raises
\* FileExistsError.  Nothing is created before the first mkdir fails, since
\* the first missing component is the one that fails.
MakeDirsRaises(f, d) ==
    \/ Exists(f, d)
    \/ \E i \in 1..(Len(d) - 1) : IsFile(f, SubSeq(d, 1, i))

Missing(f, d) == {i \in 1..Len(d) : ~Exists(f, SubSeq(d, 1, i))}

MakeDirs(f, n, d) ==
    LET first == CHOOSE i \in Missing(f, d) : \A j \in Missing(f, d) : i <= j
    IN  [p \in DOMAIN f |->
            IF IsPrefix(p, d) /\ Len(p) >= first
            THEN [kind |-> "dir", ino |-> n + (Len(p) - first)]
            ELSE f[p]]

MakeDirsCount(f, d) == Cardinality(Missing(f, d))

\* One iteration of the loop of create_dirs (filedir.py:65-68).  The result
\* is the filesystem after the iteration, the next free inode and whether
\* the iteration raised.
RemoveFirstNever(f, d, recreate) == f

RemoveFirst(f, d, recreate) ==
    IF Exists(f, d) /\ recreate THEN RmTree(f, d) ELSE f

CreateDirsBody(f, n, d, recreate) ==
    IF Exists(f, d) /\ recreate /\ RmTreeRaises(f, d)
    THEN [fs |-> f, ino |-> n, raised |-> TRUE]
    ELSE LET g == RemoveFirst(f, d, recreate)
         IN  IF Exists(g, d)
             THEN [fs |-> g, ino |-> n, raised |-> FALSE]
             ELSE IF MakeDirsRaises(g, d)
                  THEN [fs |-> g, ino |-> n, raised |-> TRUE]
                  ELSE [fs |-> MakeDirs(g, n, d),
                        ino |-> n + MakeDirsCount(g, d),
                        raised |-> FALSE]

NoRegistry == <<>>
NoSelf == <<>>
NoWorkers == <<>>

InitCreateDirs ==
    /\ fs \in FileSystems(CreateUniverse, AnyKind, CreateIndex)
    /\ nextIno = Cardinality(CreateUniverse) + 1
    /\ args \in [paths : SeqsUpTo(CreateUniverse, MaxPaths), recreate : BOOLEAN]
    /\ pc = "create_dirs"
    /\ todo = <<>>
    /\ done = <<>>
    /\ ret = None
    /\ log = <<>>
    /\ status = None
    /\ fs0 = fs
    /\ registry = NoRegistry
    /\ self = NoSelf
    /\ calls = <<>>
    /\ workers = NoWorkers

\* filedir.py:62: unique_dirs = unique(paths)
CreateDirsUnique ==
    /\ pc = "create_dirs"
    /\ todo' \in Unique(args.paths)
    /\ pc' = "loop"
    /\ UNCHANGED <<workers, fs, nextIno, args, done, ret, log, status, fs0,
                   registry, self, calls>>

\* filedir.py:64-68: one directory of the loop.
CreateDirsStep ==
    /\ pc = "loop"
    /\ todo # <<>>
    /\ LET r == CreateDirsBody(fs, nextIno, Head(todo), args.recreate)
       IN  /\ fs' = r.fs
           /\ nextIno' = r.ino
           /\ pc' = IF r.raised THEN "except" ELSE "loop"
           /\ todo' = IF r.raised THEN todo ELSE Tail(todo)
           /\ done' = IF r.raised THEN done ELSE Append(done, Head(todo))
    /\ UNCHANGED <<workers, args, ret, log, status, fs0, registry, self, calls>>

\* filedir.py:69: return 0
CreateDirsReturn ==
    /\ pc = "loop"
    /\ todo = <<>>
    /\ ret' = Some(0)
    /\ pc' = "returned"
    /\ UNCHANGED <<workers, fs, nextIno, args, todo, done, log, status, fs0,
                   registry, self, calls>>

\* filedir.py:70-72: the handler logs the error and leaves the process.
OnErrorRollBack(f0, f) == f0

OnError(f0, f) == f

CreateDirsExcept ==
    /\ pc = "except"
    /\ log' = Append(log, "Cannot create directory")
    /\ status' = Some(-1)
    /\ fs' = OnError(fs0, fs)
    /\ pc' = "exited"
    /\ UNCHANGED <<workers, nextIno, args, todo, done, ret, fs0, registry, self, calls>>

NextCreateDirs ==
    \/ CreateDirsUnique
    \/ CreateDirsStep
    \/ CreateDirsReturn
    \/ CreateDirsExcept

SpecCreateDirs == InitCreateDirs /\ [][NextCreateDirs]_vars

\* The filesystem after the loop has visited the directories of `ds`.
RECURSIVE Replay(_, _, _, _)
Replay(f, n, ds, recreate) ==
    IF ds = <<>> THEN f
    ELSE LET r == CreateDirsBody(f, n, Head(ds), recreate)
         IN  Replay(r.fs, r.ino, Tail(ds), recreate)

Listed == Range(args.paths)

\* The inodes of the entries fs0 held below d.
PriorBelow(d) == {p \in Below(fs0, d) : Exists(fs0, p)}

Survives(p) ==
    \E q \in DOMAIN fs : Exists(fs, q) /\ fs[q].ino = fs0[p].ino

\* C1 (as claimed): after create_dirs has returned 0, every path of `paths`
\* is a directory, whatever recreate is and whatever the filesystem was.
C1_AllAreDirs ==
    pc = "returned" => \A d \in Listed : IsDir(fs, d)

\* C2: when create_dirs has returned, a listed path that was a directory
\* before the call still holds every entry it held (unchanged) if recreate
\* is False, and holds none of the entries it held if recreate is True: what
\* is found under it then was created by this call.
C2_PriorContents ==
    pc = "returned" =>
        \A d \in Listed :
            IsDir(fs0, d) =>
                \A p \in PriorBelow(d) :
                    IF args.recreate THEN ~Survives(p) ELSE fs[p] = fs0[p]

\* C2 witness: a recreating call has returned, and a listed directory that
\* held an entry before holds an entry of that name again.
C2_Witness ==
    /\ pc = "returned"
    /\ args.recreate
    /\ \E d \in Listed :
           IsDir(fs0, d) /\ \E p \in PriorBelow(d) : Exists(fs, p)

\* C3: an iteration that raises is followed by the handler and by nothing
\* else; the handler logs, ends the process with status -1 and returns
\* nothing; create_dirs returns 0 or not at all; and at the exit the
\* filesystem is what the iterations before the failing one made of it.
C3_State ==
    /\ ret \in {None, Some(0)}
    /\ pc = "exited" =>
          /\ status = Some(-1)
          /\ ret = None
          /\ Len(log) = 1
          /\ fs = Replay(fs0, Cardinality(CreateUniverse) + 1, done,
                         args.recreate)
    /\ pc # "exited" => status = None /\ log = <<>>

C3_ExitOnError ==
    [](C3_State) /\ [][pc = "except" => pc' = "exited"]_vars

\* C3 witness: the process has exited after earlier iterations changed the
\* filesystem.
C3_Witness ==
    pc = "exited" /\ done # <<>> /\ fs # fs0

(***************************************************************************)
(* delete_files                                                            *)
(***************************************************************************)
E == <<"e">>
S == <<"s">>
T == <<"t">>
XTxt == <<"x", Dot, "txt">>
ZTxt == <<"z", Dot, "txt">>
HTxt == <<Dot, "h", Dot, "txt">>
WTxt == <<"wtxt">>
YJson == <<"y", Dot, "json">>

DeleteUniverse ==
    {<<D>>, <<D, XTxt>>, <<D, ZTxt>>, <<D, HTxt>>, <<D, WTxt>>, <<D, YJson>>,
     <<D, S>>, <<D, S, XTxt>>, <<D, S, T>>, <<D, S, T, XTxt>>, <<E>>}

DeleteKinds(p) ==
    CASE p = <<D>>                -> {"none", "dir", "file"}
      [] p = <<D, XTxt>>          -> {"none", "file"}
      [] p = <<D, ZTxt>>          -> {"none", "file", "dir"}
      [] p = <<D, HTxt>>          -> {"none", "file"}
      [] p = <<D, WTxt>>          -> {"file"}
      [] p = <<D, YJson>>         -> {"file"}
      [] p = <<D, S>>             -> {"none", "dir"}
      [] p = <<D, S, XTxt>>       -> {"none", "file"}
      [] p = <<D, S, T>>          -> {"none", "dir"}
      [] p = <<D, S, T, XTxt>>    -> {"none", "file"}
      [] p = <<E>>                -> {"none", "dir"}

DeleteIndex(p) ==
    CASE p = <<D>>                -> 1
      [] p = <<D, XTxt>>          -> 2
      [] p = <<D, ZTxt>>          -> 3
      [] p = <<D, HTxt>>          -> 4
      [] p = <<D, WTxt>>          -> 5
      [] p = <<D, YJson>>         -> 6
      [] p = <<D, S>>             -> 7
      [] p = <<D, S, XTxt>>       -> 8
      [] p = <<D, S, T>>          -> 9
      [] p = <<D, S, T, XTxt>>    -> 10
      [] p = <<E>>                -> 11

DeleteDirs == {<<D>>, <<D, S>>, <<E>>}

Extensions == {<<"txt">>, <<Dot, "txt">>, <<"json">>, <<>>}

\* filedir.py:306: extension = f".{extension}" if "." not in extension
NormExtensionAsGiven(extension) == extension

NormExtension(extension) ==
    IF Dot \notin Range(extension) THEN <<Dot>> \o extension ELSE extension

\* filedir.py:309-310: glob(os.path.join(d, "*" + ext), recursive): the
\* pattern has no "**" component, so `recursive` changes nothing.
GlobStarAnyName(f, d, ext, recursive) ==
    Glob(f, LitPath(d) \o <<Star(<<>>)>>, recursive)

GlobStar(f, d, ext, recursive) ==
    Glob(f, LitPath(d) \o <<Star(ext)>>, recursive)

\* filedir.py:311-312: os.remove on each match in turn; os.remove of a
\* directory raises and ends the loop.
RECURSIVE RemoveEach(_, _)
RemoveEach(f, files) ==
    IF files = <<>> THEN [fs |-> f, raised |-> FALSE]
    ELSE IF IsDir(f, Head(files)) THEN [fs |-> f, raised |-> TRUE]
    ELSE RemoveEach([f EXCEPT ![Head(files)] = NoEntry], Tail(files))

InitDeleteFiles ==
    /\ fs \in FileSystems(DeleteUniverse, DeleteKinds, DeleteIndex)
    /\ nextIno = Cardinality(DeleteUniverse) + 1
    /\ args \in [dirpaths : SeqsUpTo(DeleteDirs, MaxPaths),
                  extension : Extensions, recursive : BOOLEAN]
    /\ pc = "delete_files"
    /\ todo = <<>>
    /\ done = <<>>
    /\ ret = None
    /\ log = <<>>
    /\ status = None
    /\ fs0 = fs
    /\ registry = NoRegistry
    /\ self = NoSelf
    /\ calls = <<>>
    /\ workers = NoWorkers

\* filedir.py:305-306
DeleteFilesUnique ==
    /\ pc = "delete_files"
    /\ todo' \in Unique(args.dirpaths)
    /\ args' = [args EXCEPT !.extension = NormExtension(args.extension)]
    /\ pc' = "loop"
    /\ UNCHANGED <<workers, fs, nextIno, done, ret, log, status, fs0,
                   registry, self, calls>>

\* filedir.py:307-312: one directory of the loop; glob lists the matches in
\* an order of the filesystem's choosing.
DeleteFilesStep ==
    /\ pc = "loop"
    /\ todo # <<>>
    /\ LET d == Head(todo)
       IN  IF Exists(fs, d)
           THEN \E files \in Perms(GlobStar(fs, d, args.extension,
                                            args.recursive)) :
                  LET r == RemoveEach(fs, files)
                  IN  /\ fs' = r.fs
                      /\ pc' = IF r.raised THEN "raised" ELSE "loop"
                      /\ todo' = IF r.raised THEN todo ELSE Tail(todo)
                      /\ done' = IF r.raised THEN done ELSE Append(done, d)
           ELSE /\ todo' = Tail(todo)
                /\ done' = Append(done, d)
                /\ UNCHANGED <<fs, pc>>
    /\ UNCHANGED <<workers, nextIno, args, ret, log, status, fs0, registry, self, calls>>

\* the loop is over: the function returns (None)
DeleteFilesReturn ==
    /\ pc = "loop"
    /\ todo = <<>>
    /\ pc' = "returned"
    /\ UNCHANGED <<workers, fs, nextIno, args, todo, done, ret, log, status, fs0,
                   registry, self, calls>>

NextDeleteFiles ==
    \/ DeleteFilesUnique
    \/ DeleteFilesStep
    \/ DeleteFilesReturn

SpecDeleteFiles == InitDeleteFiles /\ [][NextDeleteFiles]_vars

\* The extension the caller asked for, with its leading dot.
Dotted(extension) ==
    IF Dot \in Range(extension) THEN extension ELSE <<Dot>> \o extension

ListedDirs == Range(args.dirpaths)

\* The files that were in directory d (recursive: or anywhere below it)
\* when the call was made and whose name ends with the extension.
WithExtension(d, recursive) ==
    {p \in Below(fs0, d) :
        /\ IsFile(fs0, p)
        /\ EndsWith(Name(p), Dotted(args.extension))
        /\ recursive \/ Parent(p) = d}

\* C4 (as claimed): when delete_files has returned, every file with the
\* extension that was in a listed directory is gone, and with recursive=True
\* so is every such file in a subdirectory at any depth.
C4_DeletesAll ==
    pc = "returned" =>
        \A d \in ListedDirs :
            \A p \in WithExtension(d, args.recursive) : ~Exists(fs, p)

\* C4 (as claimed), for the files glob can list (names that do not start
\* with a dot): the same statement, which fails on subdirectories alone.
C4_DeletesAllVisible ==
    pc = "returned" =>
        \A d \in ListedDirs :
            \A p \in WithExtension(d, args.recursive) :
                (\A i \in 1..Len(p) : ~Hidden(p[i])) => ~Exists(fs, p)

\* C5: at every point of a call of delete_files, whatever differs from the
\* filesystem of the call's start is a regular file that has been removed,
\* that was directly inside a listed directory and whose name ends with the
\* extension (dot added); a call that raised did so in a directory that
\* exists; and a call that returned visited every listed directory once.
C5_Changed(p) ==
    /\ IsFile(fs0, p)
    /\ ~Exists(fs, p)
    /\ Parent(p) \in ListedDirs
    /\ EndsWith(Name(p), Dotted(args.extension))

C5_OnlyMatchingFiles ==
    /\ \A p \in DOMAIN fs : fs[p] # fs0[p] => C5_Changed(p)
    /\ pc = "raised" => Exists(fs, Head(todo))
    /\ pc = "returned" =>
          /\ Range(done) = ListedDirs
          /\ Len(done) = Cardinality(ListedDirs)

\* C5 witness: a call has returned that listed a directory twice and a
\* directory that does not exist, removed a file, and left in place a file
\* of another extension, a directory and a file of a subdirectory.
C5_Witness ==
    /\ pc = "returned"
    /\ Len(args.dirpaths) > Cardinality(ListedDirs)
    /\ ~Exists(fs, <<D, XTxt>>) /\ IsFile(fs0, <<D, XTxt>>)
    /\ IsFile(fs, <<D, YJson>>)
    /\ IsFile(fs, <<D, S, XTxt>>)

\* C5 witness for the skipped directory: a call has returned that listed a
\* directory that does not exist.
C5_SkippedMissing ==
    pc = "returned" /\ \E d \in ListedDirs : ~Exists(fs0, d)

(***************************************************************************)
(* get_latest_file                                                         *)
(***************************************************************************)
M == <<"m">>

LatestUniverse == {<<D>>, <<D, XTxt>>, <<D, ZTxt>>, <<D, S>>, <<D, S, XTxt>>}

LatestKinds(p) ==
    CASE p = <<D>>             -> {"none", "dir"}
      [] p = <<D, XTxt>>       -> {"none", "file"}
      [] p = <<D, ZTxt>>       -> {"none", "dir"}
      [] p = <<D, S>>          -> {"none", "dir"}
      [] p = <<D, S, XTxt>>    -> {"none", "file"}

LatestIndex(p) ==
    CASE p = <<D>>             -> 1
      [] p = <<D, XTxt>>       -> 2
      [] p = <<D, ZTxt>>       -> 3
      [] p = <<D, S>>          -> 4
      [] p = <<D, S, XTxt>>    -> 5

Times == {1, 2}

\* Filesystems whose entries carry the times stat reports.
Stamped(plain) ==
    {[p \in DOMAIN f |->
        IF f[p].kind = "none" THEN f[p]
        ELSE [kind |-> f[p].kind, ino |-> f[p].ino,
              st_mtime |-> m[p], st_ctime |-> c[p]]] :
        f \in plain, m \in [LatestUniverse -> Times], c \in [LatestUniverse -> Times]}

\* "d", "d/*", "d/*.txt", "d/**", "d/**/*.txt", "d/s/x.txt", "m"
LatestPatterns ==
    {<<Lit(D)>>,
     <<Lit(D), Star(<<>>)>>,
     <<Lit(D), Star(<<Dot, "txt">>)>>,
     <<Lit(D), DStar>>,
     <<Lit(D), DStar, Star(<<Dot, "txt">>)>>,
     <<Lit(D), Lit(S), Lit(XTxt)>>,
     <<Lit(M)>>}

\* os.path.getctime / os.path.getmtime
GetCTime(f, p) == f[p].st_ctime
GetMTime(f, p) == f[p].st_mtime

\* filedir.py:260: max(file_list, key=os.path.getctime); glob lists the
\* matches in an order of the filesystem's choosing, so any match with the
\* greatest key can be the one returned.
MaxByCTime(f, file_list) ==
    {p \in file_list :
        \A q \in file_list : GetCTime(f, q) <= GetCTime(f, p)}

InitLatest ==
    /\ fs \in Stamped(FileSystems(LatestUniverse, LatestKinds, LatestIndex))
    /\ nextIno = Cardinality(LatestUniverse) + 1
    /\ args \in [path : LatestPatterns, recursive : BOOLEAN]
    /\ pc = "get_latest_file"
    /\ todo = <<>>
    /\ done = <<>>
    /\ ret = None
    /\ log = <<>>
    /\ status = None
    /\ fs0 = fs
    /\ registry = NoRegistry
    /\ self = NoSelf
    /\ calls = <<>>
    /\ workers = NoWorkers

\* filedir.py:258-261
GetLatestFile ==
    /\ pc = "get_latest_file"
    /\ LET file_list == Glob(fs, args.path, args.recursive)
       IN  IF Cardinality(file_list) > 0
           THEN \E p \in MaxByCTime(fs, file_list) : ret' = Some(p)
           ELSE ret' = None
    /\ pc' = "returned"
    /\ UNCHANGED <<workers, fs, nextIno, args, todo, done, log, status, fs0,
                   registry, self, calls>>

NextLatest == GetLatestFile

SpecLatest == InitLatest /\ [][NextLatest]_vars

Matched == Glob(fs, args.path, args.recursive)

\* C6 (as claimed): get_latest_file returns None exactly when the glob
\* matches nothing; otherwise it returns a matched path whose modification
\* time is the greatest among the matches, and that path is a regular file.
C6_LatestFile ==
    pc = "returned" =>
        /\ ret = None <=> Matched = {}
        /\ ret # None =>
              /\ ret.some \in Matched
              /\ \A q \in Matched : GetMTime(fs, q) <= GetMTime(fs, ret.some)
              /\ IsFile(fs, ret.some)

\* What the code does return: None exactly when nothing matches, else a
\* match (file or directory) with the greatest st_ctime.
C6_LatestByCTime ==
    pc = "returned" =>
        /\ ret = None <=> Matched = {}
        /\ ret # None =>
              /\ ret.some \in Matched
              /\ \A q \in Matched : GetCTime(fs, q) <= GetCTime(fs, ret.some)

(***************************************************************************)
(* The extension predicates: is_ckpt_file, is_json_file, ...               *)
(***************************************************************************)
Ext(word) == <<Dot, word>>
File(stem, word) == <<stem, Dot, word>>

DTxt == File("d", "txt")
DotCkpt == <<Dot, "ckpt">>
XCkptNoDot == <<"xckpt">>
XTarPt == <<"x", Dot, "tar", Dot, "pt">>
XPtBak == <<"x", Dot, "pt", Dot, "bak">>
XDotDotCkpt == <<"x", Dot, Dot, "ckpt">>
X == <<"x">>

ListedWords == {"ckpt", "json", "txt", "xml", "yaml", "yml", "pt", "pth", "weights"}

\* x.ckpt, x.json, ..., x.weights, x.tar.pt, x.pt.bak, x..ckpt, .ckpt, xckpt,
\* the directory d.txt and d.txt/x
PredUniverse ==
    {<<File("x", w)>> : w \in ListedWords}
        \cup {<<XTarPt>>, <<XPtBak>>, <<XDotDotCkpt>>, <<DotCkpt>>,
              <<XCkptNoDot>>, <<DTxt>>, <<DTxt, X>>}

\* The filesystem in which every path of the universe is a regular file
\* (d.txt a directory), but for path q, which has kind k.
PredFS(q, k) ==
    LET kind(p) == IF p = q THEN k ELSE IF p = <<DTxt>> THEN "dir" ELSE "file"
    IN  [p \in PredUniverse |->
            IF kind(p) = "none" \/ (Len(p) > 1 /\ kind(Parent(p)) # "dir")
            THEN NoEntry
            ELSE [kind |-> kind(p), ino |-> 1]]

\* os.path.splitext(path)[1]: what follows the last dot of the last name,
\* dot included, unless nothing but dots comes before that dot.
LastDot(n) == CHOOSE i \in 1..Len(n) : n[i] = Dot /\ \A j \in (i + 1)..Len(n) : n[j] # Dot

SplitextNaive(p) ==
    LET n == Name(p)
    IN  IF Dot \notin Range(n) THEN <<>> ELSE SubSeq(n, LastDot(n), Len(n))

Splitext(p) ==
    LET n == Name(p)
    IN  IF Dot \notin Range(n) THEN <<>>
        ELSE IF \E j \in 1..(LastDot(n) - 1) : n[j] # Dot
             THEN SubSeq(n, LastDot(n), Len(n))
             ELSE <<>>

\* filedir.py:104, 117, 157, 170, 203, 216, 229
CkptExts == {Ext("ckpt")}
JsonExts == {Ext("json")}
TorchSavedExts == {Ext("pt"), Ext("pth"), Ext("weights"), Ext("ckpt")}
TxtExts == {Ext("txt")}
WeightsExts == {Ext("pt"), Ext("pth")}
XmlExts == {Ext("xml")}
YamlExts == {Ext("yaml"), Ext("yml")}

\* The body the seven predicates share: `path is None` returns False; a
\* regular file whose extension is in the list returns True; else False.
HasExtension(f, path, exts) ==
    IF path = None THEN FALSE
    ELSE IF IsFile(f, path.some) THEN Splitext(path.some) \in exts
    ELSE FALSE

is_ckpt_file(f, path) == HasExtension(f, path, CkptExts)
is_json_file(f, path) == HasExtension(f, path, JsonExts)
is_torch_saved_file(f, path) == HasExtension(f, path, TorchSavedExts)
is_txt_file(f, path) == HasExtension(f, path, TxtExts)
is_weights_file(f, path) == HasExtension(f, path, WeightsExts)
is_xml_file(f, path) == HasExtension(f, path, XmlExts)
is_yaml_file(f, path) == HasExtension(f, path, YamlExts)

InitPredicates ==
    /\ fs \in {PredFS(q, k) : q \in PredUniverse, k \in {"none", "dir", "file"}}
    /\ nextIno = 2
    /\ args \in [path : {None} \cup {Some(p) : p \in PredUniverse}]
    /\ pc = "call"
    /\ todo = <<>>
    /\ done = <<>>
    /\ ret = None
    /\ log = <<>>
    /\ status = None
    /\ fs0 = fs
    /\ registry = NoRegistry
    /\ self = NoSelf
    /\ calls = <<>>
    /\ workers = NoWorkers

Returns(name, value) ==
    /\ pc = "call"
    /\ calls' = <<name>>
    /\ ret' = Some(value)
    /\ pc' = "returned"
    /\ UNCHANGED <<workers, fs, nextIno, args, todo, done, log, status, fs0,
                   registry, self>>

IsCkptFile == Returns("is_ckpt_file", is_ckpt_file(fs, args.path))
IsJsonFile == Returns("is_json_file", is_json_file(fs, args.path))
IsTorchSavedFile ==
    Returns("is_torch_saved_file", is_torch_saved_file(fs, args.path))
IsTxtFile == Returns("is_txt_file", is_txt_file(fs, args.path))
IsWeightsFile == Returns("is_weights_file", is_weights_file(fs, args.path))
IsXmlFile == Returns("is_xml_file", is_xml_file(fs, args.path))
IsYamlFile == Returns("is_yaml_file", is_yaml_file(fs, args.path))

NextPredicates ==
    \/ IsCkptFile
    \/ IsJsonFile
    \/ IsTorchSavedFile
    \/ IsTxtFile
    \/ IsWeightsFile
    \/ IsXmlFile
    \/ IsYamlFile

SpecPredicates == InitPredicates /\ [][NextPredicates]_vars

\* The final extension of each path of the universe, as Python's
\* os.path.splitext gives it.
FinalExtension(p) ==
    CASE p = <<XTarPt>>       -> Ext("pt")
      [] p = <<XPtBak>>       -> Ext("bak")
      [] p = <<XDotDotCkpt>>  -> Ext("ckpt")
      [] p = <<DotCkpt>>      -> <<>>
      [] p = <<XCkptNoDot>>   -> <<>>
      [] p = <<DTxt>>         -> Ext("txt")
      [] p = <<DTxt, X>>      -> <<>>
      [] OTHER                -> Ext(p[1][3])

\* The sets of extensions as the docstrings give them.
Documented(name) ==
    CASE name = "is_ckpt_file"        -> {Ext("ckpt")}
      [] name = "is_json_file"        -> {Ext("json")}
      [] name = "is_txt_file"         -> {Ext("txt")}
      [] name = "is_xml_file"         -> {Ext("xml")}
      [] name = "is_yaml_file"        -> {Ext("yaml")}
      [] name = "is_weights_file"     -> {Ext("pt"), Ext("pth")}
      [] name = "is_torch_saved_file" ->
            {Ext("pt"), Ext("pth"), Ext("weights"), Ext("ckpt")}

\* The same, with the set is_yaml_file tests: .yaml and .yml.
Accepted(name) ==
    IF name = "is_yaml_file" THEN {Ext("yaml"), Ext("yml")}
    ELSE Documented(name)

Expected(exts) ==
    /\ args.path # None
    /\ IsFile(fs, args.path.some)
    /\ FinalExtension(args.path.some) \in exts

TorchSavedCovers ==
    is_weights_file(fs, args.path) \/ is_ckpt_file(fs, args.path)
        => is_torch_saved_file(fs, args.path)

C7_WitnessCovers ==
    /\ pc = "returned"
    /\ calls = <<"is_torch_saved_file">>
    /\ is_ckpt_file(fs, args.path)
    /\ ret = Some(TRUE)

(***************************************************************************)
(* resnet.py: the cfgs table, the registered classes, ResNet.__init__      *)
(***************************************************************************)
Cfg(block, layers, groups, width_per_group) ==
    [block |-> block, layers |-> layers, zero_init_residual |-> FALSE,
     groups |-> groups, width_per_group |-> width_per_group,
     replace_stride_with_dilation |-> None, norm_layer |-> None]

\* resnet.py:30-76
cfgs ==
    [resnet18         |-> Cfg("BasicBlock", <<2, 2, 2, 2>>, 1, 64),
     resnet34         |-> Cfg("BasicBlock", <<3, 4, 6, 3>>, 1, 64),
     resnet50         |-> Cfg("Bottleneck", <<3, 4, 6, 3>>, 1, 64),
     resnet101        |-> Cfg("Bottleneck", <<3, 4, 23, 3>>, 1, 64),
     resnet152        |-> Cfg("Bottleneck", <<3, 8, 36, 3>>, 1, 64),
     resnext50_32x4d  |-> Cfg("Bottleneck", <<3, 4, 6, 3>>, 32, 4),
     resnext101_32x8d |-> Cfg("Bottleneck", <<3, 4, 23, 3>>, 32, 8),
     wide_resnet50_2  |-> Cfg("Bottleneck", <<3, 4, 6, 3>>, 1, 64 * 2),
     wide_resnet101_2 |-> Cfg("Bottleneck", <<3, 4, 23, 3>>, 1, 64 * 2)]

\* A class statement of the file: the names its three decorators register
\* it under, the cfg its __init__ hands to ResNet.__init__ (None: the
\* caller's) and the default of its `name` parameter.
Class(cls, backbones, classifiers, models, cfg, name) ==
    [cls |-> cls, BACKBONES |-> backbones, CLASSIFIERS |-> classifiers,
     MODELS |-> models, cfg |-> cfg, name |-> name]

Family(cls, key) == Class(cls, key, key, key, Some(key), key)

\* A copy of the file in which WideResNet101_2 was pasted from
\* WideResNet50_2 and its CLASSIFIERS name left unchanged.
ClassDefsPasted ==
    <<Class("ResNet", "resnet", "resnet", "resnet", None, "resnet"),
      Family("ResNet18", "resnet18"),
      Family("ResNet34", "resnet34"),
      Family("ResNet50", "resnet50"),
      Family("ResNet101", "resnet101"),
      Family("ResNet152", "resnet152"),
      Family("ResNeXt50_32X4D", "resnext50_32x4d"),
      Family("ResNeXt101_32X8D", "resnext101_32x8d"),
      Family("WideResNet50_2", "wide_resnet50_2"),
      Class("WideResNet101_2", "wide_resnet101_2", "wide_resnet50_2",
            "wide_resnet101_2", Some("wide_resnet101_2"), "wide_resnet101_2")>>

\* resnet.py:82-85, 293-321, 326-354, ..., 557-585
ClassDefs ==
    <<Class("ResNet", "resnet", "resnet", "resnet", None, "resnet"),
      Class("ResNet18", "resnet18", "resnet18", "resnet18",
            Some("resnet18"), "resnet18"),
      Class("ResNet34", "resnet34", "resnet34", "resnet34",
            Some("resnet34"), "resnet34"),
      Class("ResNet50", "resnet50", "resnet50", "resnet50",
            Some("resnet50"), "resnet50"),
      Class("ResNet101", "resnet101", "resnet101", "resnet101",
            Some("resnet101"), "resnet101"),
      Class("ResNet152", "resnet152", "resnet152", "resnet152",
            Some("resnet152"), "resnet152"),
      Class("ResNeXt50_32X4D", "resnext50_32x4d", "resnext50_32x4d",
            "resnext50_32x4d", Some("resnext50_32x4d"), "resnext50_32x4d"),
      Class("ResNeXt101_32X8D", "resnext101_32x8d", "resnext101_32x8d",
            "resnext101_32x8d", Some("resnext101_32x8d"), "resnext101_32x8d"),
      Class("WideResNet50_2", "wide_resnet50_2", "wide_resnet50_2",
            "wide_resnet50_2", Some("wide_resnet50_2"), "wide_resnet50_2"),
      Class("WideResNet101_2", "wide_resnet101_2", "wide_resnet101_2",
            "wide_resnet101_2", Some("wide_resnet101_2"), "wide_resnet101_2")>>

Registries == {"BACKBONES", "CLASSIFIERS", "MODELS"}

\* Decorators are applied bottom-up: MODELS, CLASSIFIERS, BACKBONES.
DecoratorOrder == <<"MODELS", "CLASSIFIERS", "BACKBONES">>

\* The registrations the import of the file makes, in order.
Registrations ==
    [i \in 1..(3 * Len(ClassDefs)) |->
        LET c == ClassDefs[((i - 1) \div 3) + 1]
            r == DecoratorOrder[((i - 1) % 3) + 1]
        IN  [registry |-> r, name |-> c[r], cls |-> c.cls]]

ClassNamed(cls) == CHOOSE c \in Range(ClassDefs) : c.cls = cls

\* Registry.register(name=...) of torchkit.models.builder is not among the
\* sources; it is modelled as recording the pair (name, class).
RegisterIn(reg, r) ==
    [reg EXCEPT ![r.registry] = @ \cup {<<r.name, r.cls>>}]

\* Python truth of the values `pretrained` is drawn from.
Pretrained == {"False", "True", "''", "'imagenet'", "{}", "{'path': 'w.pth'}"}
Falsy == {"False", "''", "{}"}
Truthy(v) == v \notin Falsy

Expansion(block) == IF block = "BasicBlock" THEN 1 ELSE 4

InitResNet ==
    /\ fs = <<>>
    /\ nextIno = 0
    /\ args = <<>>
    /\ pc = "import"
    /\ todo = Registrations
    /\ done = <<>>
    /\ ret = None
    /\ log = <<>>
    /\ status = None
    /\ fs0 = <<>>
    /\ registry = [r \in Registries |-> {}]
    /\ self = NoSelf
    /\ calls = <<>>
    /\ workers = NoWorkers

\* One decorator of one class statement.
Register ==
    /\ pc = "import"
    /\ todo # <<>>
    /\ registry' = RegisterIn(registry, Head(todo))
    /\ todo' = Tail(todo)
    /\ pc' = IF Tail(todo) = <<>> THEN "imported" ELSE "import"
    /\ UNCHANGED <<workers, fs, nextIno, args, done, ret, log, status, fs0, self, calls>>

\* A class is looked up in a registry and called.  A family class hands its
\* own cfg to ResNet.__init__ (resnet.py:318-321); ResNet takes the caller's.
Construct ==
    /\ pc = "imported"
    /\ \E r \in Registries : \E e \in registry[r] :
       \E cfg \in (DOMAIN cfgs) \cup {"resnet_tiny"} :
       \E name \in {None, Some("backbone")} :
       \E num_classes \in {None, Some(0), Some(1000)} :
       \E pretrained \in Pretrained :
          LET c == ClassNamed(e[2])
          IN  /\ c.cfg # None => cfg = c.cfg.some
              /\ args' = [registry |-> r, key |-> e[1], cls |-> c.cls,
                          cfg |-> cfg,
                          name |-> IF name = None THEN c.name ELSE name.some,
                          num_classes |-> num_classes,
                          pretrained |-> pretrained]
    /\ pc' = "super"
    /\ UNCHANGED <<workers, fs, nextIno, todo, done, ret, log, status, fs0, registry,
                   self, calls>>

\* resnet.py:134-137: ImageClassifier.__init__ is not among the sources; it
\* is modelled as storing its arguments.
SuperInit ==
    /\ pc = "super"
    /\ self' = [name |-> args.name, num_classes |-> args.num_classes,
                pretrained |-> args.pretrained]
    /\ done' = <<"name", "num_classes", "pretrained">>
    /\ pc' = "cfg"
    /\ UNCHANGED <<workers, fs, nextIno, args, todo, ret, log, status, fs0, registry,
                   calls>>

With(obj, field, value) ==
    [k \in (DOMAIN obj) \cup {field} |-> IF k = field THEN value ELSE obj[k]]

\* resnet.py:139-167: a cfg that is no key of cfgs stays a str and fails
\* the assertion.
Hyperparameters ==
    /\ pc = "cfg"
    /\ IF args.cfg \in DOMAIN cfgs
       THEN /\ self' = With(With(With(With(With(self,
                            "cfg", cfgs[args.cfg]),
                            "inplanes", 64),
                            "dilation", 1),
                            "groups", cfgs[args.cfg].groups),
                            "base_width", cfgs[args.cfg].width_per_group)
            /\ done' = done \o <<"cfg", "inplanes", "dilation", "groups",
                                  "base_width">>
            /\ todo' = <<"conv1", "bn1", "relu", "maxpool", "layer1",
                         "layer2", "layer3", "layer4">>
            /\ pc' = "features"
       ELSE /\ pc' = "raised"
            /\ UNCHANGED <<self, done, todo>>
    /\ UNCHANGED <<workers, fs, nextIno, args, ret, log, status, fs0, registry, calls>>

Planes(layer) ==
    CASE layer = "layer1" -> 64
      [] layer = "layer2" -> 128
      [] layer = "layer3" -> 256
      [] layer = "layer4" -> 512

LayerIndex(layer) ==
    CASE layer = "layer1" -> 1
      [] layer = "layer2" -> 2
      [] layer = "layer3" -> 3
      [] layer = "layer4" -> 4

\* resnet.py:202-237: make_layer
make_layer(block, planes, blocks, stride) ==
    [block |-> block, planes |-> planes, blocks |-> blocks, stride |-> stride]

\* resnet.py:170-181: the next attribute of the features.
Features ==
    /\ pc = "features"
    /\ todo # <<>>
    /\ LET a == Head(todo)
           cfg == self.cfg
       IN  IF a \in {"layer1", "layer2", "layer3", "layer4"}
           THEN /\ self' = With(With(self, a,
                               make_layer(cfg.block, Planes(a),
                                          cfg.layers[LayerIndex(a)],
                                          IF a = "layer1" THEN 1 ELSE 2)),
                               "inplanes", Planes(a) * Expansion(cfg.block))
                /\ calls' = Append(calls, "make_layer")
           ELSE /\ self' = With(self, a, a)
                /\ calls' = calls
    /\ done' = Append(done, Head(todo))
    /\ todo' = Tail(todo)
    /\ pc' = IF Tail(todo) = <<>> THEN "head" ELSE "features"
    /\ UNCHANGED <<workers, fs, nextIno, args, ret, log, status, fs0, registry>>

\* resnet.py:239-245
create_classifier(block, num_classes) ==
    IF num_classes # None /\ num_classes.some > 0
    THEN [linear |-> <<512 * Expansion(block), num_classes.some>>]
    ELSE [identity |-> TRUE]

\* resnet.py:184-185
Head_ ==
    /\ pc = "head"
    /\ self' = With(With(self, "avgpool", "avgpool"),
                    "fc", create_classifier(self.cfg.block, self.num_classes))
    /\ calls' = Append(calls, "create_classifier")
    /\ done' = done \o <<"avgpool", "fc">>
    /\ pc' = "weights"
    /\ UNCHANGED <<workers, fs, nextIno, args, todo, ret, log, status, fs0, registry>>

\* resnet.py:188: if self.pretrained
LoadsPretrainedAlways(obj) == TRUE

LoadsPretrained(obj) == Truthy(obj.pretrained)

\* resnet.py:188-189: load_pretrained (of ImageClassifier) may raise, e.g.
\* when the weights cannot be fetched.
LoadPretrained ==
    /\ pc = "weights"
    /\ LoadsPretrained(self)
    /\ calls' = Append(calls, "load_pretrained")
    /\ \E ok \in BOOLEAN : pc' = IF ok THEN "alias" ELSE "raised"
    /\ UNCHANGED <<workers, fs, nextIno, args, todo, done, ret, log, status, fs0,
                   registry, self>>

\* resnet.py:190-191
InitializeWeights ==
    /\ pc = "weights"
    /\ ~LoadsPretrained(self)
    /\ calls' = Append(calls, "initialize_weights")
    /\ pc' = "alias"
    /\ UNCHANGED <<workers, fs, nextIno, args, todo, done, ret, log, status, fs0,
                   registry, self>>

\* resnet.py:194-198
Alias ==
    /\ pc = "alias"
    /\ self' = With(With(self,
                    "features", <<"conv1", "bn1", "relu", "maxpool", "layer1",
                                  "layer2", "layer3", "layer4">>),
                    "classifier", self.fc)
    /\ done' = done \o <<"features", "classifier">>
    /\ pc' = "constructed"
    /\ UNCHANGED <<workers, fs, nextIno, args, todo, ret, log, status, fs0, registry,
                   calls>>

NextResNet ==
    \/ Register
    \/ Construct
    \/ SuperInit
    \/ Hyperparameters
    \/ Features
    \/ Head_
    \/ LoadPretrained
    \/ InitializeWeights
    \/ Alias

SpecResNet == InitResNet /\ [][NextResNet]_vars

Named(r, k) == {e \in registry[r] : e[1] = k}

Initialised == {"cfg", "features", "head", "weights", "alias", "constructed"}

Count(name) == Cardinality({i \in 1..Len(calls) : calls[i] = name})

WeightCalls == Count("load_pretrained") + Count("initialize_weights")

CreatedFirst == {"conv1", "bn1", "layer1", "layer2", "layer3", "layer4", "fc"}

Aliases == {"features", "classifier"}

\* C9: ResNet.__init__ calls load_pretrained or initialize_weights at most
\* once, and exactly once when it gets past that point; it is load_pretrained
\* exactly when self.pretrained is truthy; when the call is made conv1, bn1,
\* layer1..layer4 and fc exist; and no alias is set before the call.
C9_WeightsAfterLayers ==
    /\ WeightCalls <= 1
    /\ pc \in {"alias", "constructed"} => WeightCalls = 1
    /\ Count("load_pretrained") = 1 => Truthy(self.pretrained)
    /\ Count("initialize_weights") = 1 => ~Truthy(self.pretrained)
    /\ WeightCalls = 1 => CreatedFirst \subseteq Range(done)
    /\ WeightCalls = 0 => Aliases \cap Range(done) = {}

\* C9 witness: a construction with pretrained="imagenet" has finished: it
\* called load_pretrained and then set the aliases.
C9_Witness ==
    /\ pc = "constructed"
    /\ self.pretrained = "'imagenet'"
    /\ Count("load_pretrained") = 1
    /\ Aliases \subseteq Range(done)

\* C9, the other branch: a construction with pretrained=False has finished
\* and called initialize_weights.
C9_WitnessInitialize ==
    /\ pc = "constructed"
    /\ self.pretrained = "False"
    /\ Count("initialize_weights") = 1

(***************************************************************************)
(* copy_annotations.py                                                     *)
(***************************************************************************)
Sep == "/"

\* os.path.join of the names of a path: the string of the path.
RECURSIVE Join(_)
Join(p) ==
    IF Len(p) = 1 THEN p[1] ELSE p[1] \o <<Sep>> \o Join(Tail(p))

\* The path a string names: its names, split at the separators.
RECURSIVE Split(_)
Split(str) ==
    IF Sep \notin Range(str) THEN <<str>>
    ELSE LET i == CHOOSE k \in 1..Len(str) :
                     str[k] = Sep /\ \A j \in 1..(k - 1) : str[j] # Sep
         IN  <<SubSeq(str, 1, i - 1)>> \o Split(SubSeq(str, i + 1, Len(str)))

\* str.replace(old, new): every occurrence, leftmost first, not overlapping.
RECURSIVE Replace(_, _, _)
Replace(str, old, new) ==
    IF Len(str) < Len(old) THEN str
    ELSE IF SubSeq(str, 1, Len(old)) = old
         THEN new \o Replace(SubSeq(str, Len(old) + 1, Len(str)), old, new)
         ELSE <<Head(str)>> \o Replace(Tail(str), old, new)

Front == <<"front">>
FrontEasy == <<"front", "_easy">>
Images == <<"images">>
Annotations == <<"annotations">>
Jpeg == <<Dot, "jpeg">>
Txt == <<Dot, "txt">>

\* copy_annotations.py:16, with datasets_dir = root
TrainDir(root) == <<root, <<"waymo">>, <<"detection2d">>, <<"train">>>>
ImagesDir(root) == TrainDir(root) \o <<FrontEasy, Images>>
image_pattern(root) == LitPath(ImagesDir(root)) \o <<Star(Jpeg)>>

\* copy_annotations.py:19-21 and 22
AnnotationFile(file) ==
    Replace(Replace(Replace(file, FrontEasy, Front), Images, Annotations),
            Jpeg, Txt)

NewAnnotationFile(annotation_file) == Replace(annotation_file, Front, FrontEasy)

\* datasets_dir: "data", "front", "images"
Roots == {<<"data">>, <<"front">>, <<"images">>}

\* image stems: "x", "front_cam", "images_1", "x.jpeg_old"
Stems == {<<"x">>, <<"front", "_cam">>, <<"images", "_1">>,
          <<"x", Dot, "jpeg", "_old">>}

ImageFile(root, stem) == ImagesDir(root) \o <<stem \o Jpeg>>

\* The annotation of an image and the place of its copy, as the layout of
\* the dataset has them.
OwnAnnotation(root, stem) ==
    TrainDir(root) \o <<Front, Annotations, stem \o Txt>>

CopyPlace(root, stem) ==
    TrainDir(root) \o <<FrontEasy, Annotations, stem \o Txt>>

\* What the script reads and writes for an image.
ReadPath(root, stem) == Split(AnnotationFile(Join(ImageFile(root, stem))))

WritePath(root, stem) ==
    Split(NewAnnotationFile(AnnotationFile(Join(ImageFile(root, stem)))))

Ancestors(p) == {SubSeq(p, 1, i) : i \in 1..(Len(p) - 1)}

\* The filesystem that holds exactly the regular files `files`, the
\* directories `dirs` and the directories leading to them.  The data of a
\* regular file is named after the path it was first found at.
Tree(files, dirs) ==
    LET alldirs == dirs \cup UNION {Ancestors(p) : p \in files \cup dirs}
    IN  [p \in (files \ alldirs) \cup alldirs |->
            IF p \in alldirs THEN [kind |-> "dir", data |-> <<>>]
            ELSE [kind |-> "file", data |-> p]]

\* shutil.copyfile(src, dst)
CopyFileRaises(f, src, dst) ==
    \/ ~IsFile(f, src)
    \/ src = dst
    \/ ~IsDir(f, Parent(dst))
    \/ IsDir(f, dst)

CopyFile(f, src, dst) ==
    [p \in (DOMAIN f) \cup {dst} |->
        IF p = dst THEN [kind |-> "file", data |-> f[src].data] ELSE f[p]]

InitCopy ==
    /\ \E root \in Roots :
       \E stems \in {x \in SUBSET Stems : Cardinality(x) \in 1..MaxPaths} :
       \E annotated \in SUBSET
              ({OwnAnnotation(root, x) : x \in stems}
                  \cup {ReadPath(root, x) : x \in stems}) :
       \E places \in SUBSET
              ({Parent(CopyPlace(root, x)) : x \in stems}
                  \cup {Parent(WritePath(root, x)) : x \in stems}) :
          /\ args = [datasets_dir |-> root]
          /\ fs = Tree({ImageFile(root, x) : x \in stems} \cup annotated,
                       places)
    /\ nextIno = 0
    /\ pc = "glob"
    /\ todo = <<>>
    /\ done = <<>>
    /\ ret = None
    /\ log = <<>>
    /\ status = None
    /\ fs0 = fs
    /\ registry = NoRegistry
    /\ self = NoSelf
    /\ calls = <<>>
    /\ workers = NoWorkers

\* copy_annotations.py:18: glob.glob(image_pattern)
CopyGlob ==
    /\ pc = "glob"
    /\ todo' \in Perms(Glob(fs, image_pattern(args.datasets_dir), FALSE))
    /\ pc' = "loop"
    /\ UNCHANGED <<workers, fs, nextIno, args, done, ret, log, status, fs0, registry,
                   self, calls>>

\* copy_annotations.py:19-23: one image.  An exception of copyfile ends
\* the script.
CopyStep ==
    /\ pc = "loop"
    /\ todo # <<>>
    /\ LET file == Join(Head(todo))
           annotation_file == AnnotationFile(file)
           new_annotation_file == NewAnnotationFile(annotation_file)
           src == Split(annotation_file)
           dst == Split(new_annotation_file)
       IN  IF CopyFileRaises(fs, src, dst)
           THEN /\ pc' = "raised"
                /\ status' = Some(1)
                /\ UNCHANGED <<fs, todo, done>>
           ELSE /\ fs' = CopyFile(fs, src, dst)
                /\ done' = Append(done, [file |-> Head(todo), src |-> src,
                                         dst |-> dst])
                /\ todo' = Tail(todo)
                /\ UNCHANGED <<pc, status>>
    /\ UNCHANGED <<workers, nextIno, args, ret, log, fs0, registry, self, calls>>

\* the loop is over: the script ends
CopyEnd ==
    /\ pc = "loop"
    /\ todo = <<>>
    /\ pc' = "exited"
    /\ status' = Some(0)
    /\ UNCHANGED <<workers, fs, nextIno, args, todo, done, ret, log, fs0, registry,
                   self, calls>>

NextCopy ==
    \/ CopyGlob
    \/ CopyStep
    \/ CopyEnd

SpecCopy == InitCopy /\ [][NextCopy]_vars

\* The stem <X> of an image path .../images/<X>.jpeg.
StemOf(file) == SubSeq(Name(file), 1, Len(Name(file)) - Len(Jpeg))

CopiedPlaces(root) == TrainDir(root) \o <<FrontEasy, Annotations>>

Changed ==
    {p \in (DOMAIN fs) \cup (DOMAIN fs0) :
        p \notin DOMAIN fs \/ p \notin DOMAIN fs0 \/ fs[p] # fs0[p]}

\* C10 (as claimed): every copy the script makes for an image
\* <root>/front_easy/images/<X>.jpeg reads <root>/front/annotations/<X>.txt
\* and writes <root>/front_easy/annotations/<X>.txt, whatever the root and
\* X are; when the script has ended every matched image has its copy; and
\* nothing outside <root>/front_easy/annotations is ever written.
C10_CopiesOwnAnnotation ==
    LET root == args.datasets_dir
    IN  /\ \A i \in 1..Len(done) :
              /\ done[i].src = OwnAnnotation(root, StemOf(done[i].file))
              /\ done[i].dst = CopyPlace(root, StemOf(done[i].file))
        /\ pc = "exited" =>
              \A x \in Stems :
                  ImageFile(root, x) \in DOMAIN fs0 =>
                      /\ CopyPlace(root, x) \in DOMAIN fs
                      /\ OwnAnnotation(root, x) \in DOMAIN fs0
                      /\ fs[CopyPlace(root, x)].data =
                             fs0[OwnAnnotation(root, x)].data
        /\ \A p \in Changed : Parent(p) = CopiedPlaces(root)

\* The part of C10 the script does keep: for a root and a stem that contain
\* none of "front", "images", ".jpeg", the copy is the claimed one.
PlainName(str) ==
    /\ \A i \in 1..Len(str) : str[i] \notin {"front", "images"}
    /\ Replace(str, Jpeg, Txt) = str

C10_PlainNames ==
    \A i \in 1..Len(done) :
        LET root == args.datasets_dir
            x == StemOf(done[i].file)
        IN  PlainName(root) /\ PlainName(x) =>
                /\ done[i].src = OwnAnnotation(root, x)
                /\ done[i].dst = CopyPlace(root, x)

(***************************************************************************)
(* convert_annotations_yolo.py                                             *)
(*                                                                         *)
(* The script globs the annotation files of the split "train", recreates   *)
(* the five annotations_yolo directories and hands one task per annotation *)
(* file to joblib.Parallel.  A task is `process(path)`; the tasks run in   *)
(* worker processes, so the steps of different tasks interleave freely.    *)
(* The file of an annotation holds one row per line; a row is "label"      *)
(* (six numbers or more) or "short" (one number).                          *)
(***************************************************************************)
AnnotationsYolo == <<"annotations", "_yolo">>

\* convert_annotations_yolo.py:20: datasets_dir, fixed by the installation
datasets_dir == <<"data">>

\* convert_annotations_yolo.py:26
annotation_pattern ==
    LitPath(TrainDir(datasets_dir))
        \o <<Star(<<>>), Lit(Annotations), Star(Txt)>>

\* convert_annotations_yolo.py:29-35
Cameras ==
    <<Front, <<"front", "_left">>, <<"front", "_right">>,
      <<"side", "_left">>, <<"side", "_right">>>>

new_annotation_dirs ==
    [i \in 1..Len(Cameras) |->
        TrainDir(datasets_dir) \o <<Cameras[i], AnnotationsYolo>>]

\* convert_annotations_yolo.py:41-42
image_path(path) == Replace(Replace(path, Annotations, Images), Txt, Jpeg)

\* The variant that is commented out in the script (lines 40, 47-48): the
\* output is named after the file alone.
NewAnnotationPathByName(path) ==
    Join(new_annotation_dirs[1] \o <<Name(Split(path))>>)

\* convert_annotations_yolo.py:45
new_annotation_path(path) == Replace(path, Annotations, AnnotationsYolo)

ImageFor(p) == Split(image_path(Join(p)))
OutputFor(p) == Split(new_annotation_path(Join(p)))

\* Annotation files the dataset may hold: two camera directories (one of
\* the five, and front_easy, which copy_annotations.py fills), two names.
ConvertCameras == {Front, FrontEasy}
ConvertStems == {<<"x">>, <<"annotations", "_1">>}

ConvertPlaces ==
    {TrainDir(datasets_dir) \o <<c, Annotations, x \o Txt>> :
        c \in ConvertCameras, x \in ConvertStems}

ConvertUniverse ==
    LET leaves == ConvertPlaces
                      \cup {ImageFor(p) : p \in ConvertPlaces}
                      \cup {OutputFor(p) : p \in ConvertPlaces}
                      \cup Range(new_annotation_dirs)
    IN  leaves \cup UNION {Ancestors(p) : p \in leaves}

\* image_path and new_annotation_path of every annotation file, computed
\* once.
ImagePaths == [p \in ConvertPlaces |-> ImageFor(p)]
OutputPaths == [p \in ConvertPlaces |-> OutputFor(p)]

ImageOf(p) == ImagePaths[p]
OutputOf(p) == OutputPaths[p]

RECURSIVE Enumerate(_)
Enumerate(set) ==
    IF set = {} THEN <<>>
    ELSE LET x == CHOOSE y \in set : TRUE
         IN  <<x>> \o Enumerate(set \ {x})

ConvertOrder == Enumerate(ConvertUniverse)

ConvertIndex(p) == CHOOSE i \in 1..Len(ConvertOrder) : ConvertOrder[i] = p

\* What an annotation file may hold.
Contents ==
    {<<>>, <<"label">>, <<"label", "label">>, <<"short">>,
     <<"label", "short">>}

\* The dataset: the annotation files of `content` with their rows, the
\* image files `images`, the output files `stale` that an earlier run
\* left, and the directories that lead to them.
Dataset(content, images, stale) ==
    LET files == (DOMAIN content) \cup images \cup stale
        dirs == UNION {Ancestors(p) : p \in files}
    IN  [p \in ConvertUniverse |->
            IF p \in DOMAIN content
            THEN [kind |-> "file", ino |-> ConvertIndex(p),
                  data |-> content[p]]
            ELSE IF p \in images
            THEN [kind |-> "file", ino |-> ConvertIndex(p), data |-> <<"jpeg">>]
            ELSE IF p \in stale
            THEN [kind |-> "file", ino |-> ConvertIndex(p),
                  data |-> <<"stale">>]
            ELSE IF p \in dirs
            THEN [kind |-> "dir", ino |-> ConvertIndex(p)]
            ELSE NoEntry]

YoloDirs == Range(new_annotation_dirs)

InitConvert ==
    /\ \E inputs \in {x \in SUBSET ConvertPlaces :
                          Cardinality(x) \in 1..MaxPaths} :
       \E content \in [inputs -> Contents] :
       \E noimage \in SUBSET inputs :
       \E rerun \in BOOLEAN :
          /\ Cardinality(noimage) <= 1
          /\ fs = Dataset(content,
                          {ImageOf(p) : p \in inputs \ noimage},
                          IF rerun
                          THEN {OutputOf(p) : p \in
                                   {q \in inputs :
                                       Parent(OutputOf(q)) \in YoloDirs}}
                          ELSE {})
    /\ nextIno = Cardinality(ConvertUniverse) + 1
    /\ pc = "glob"
    /\ args = [split |-> "train"]
    /\ todo = {}
    /\ done = <<>>
    /\ ret = None
    /\ log = <<>>
    /\ status = None
    /\ fs0 = fs
    /\ registry = NoRegistry
    /\ self = NoSelf
    /\ calls = <<>>
    /\ workers = NoWorkers

\* convert_annotations_yolo.py:27: annotation_paths = glob.glob(..).  The
\* paths of the list are distinct; its order is of no consequence below,
\* where every dispatched task may take its steps at any time.
ConvertGlob ==
    /\ pc = "glob"
    /\ todo' = Glob(fs, annotation_pattern, FALSE)
    /\ pc' = "create_dirs"
    /\ UNCHANGED <<fs, nextIno, args, done, ret, log, status, fs0, registry,
                   self, calls, workers>>

\* create_dirs (filedir.py:62-72) as one call: the loop over `ds` up to the
\* first iteration that raises.
RECURSIVE CreateDirsLoop(_, _, _, _)
CreateDirsLoop(f, n, ds, recreate) ==
    IF ds = <<>> THEN [fs |-> f, ino |-> n, raised |-> FALSE]
    ELSE LET r == CreateDirsBody(f, n, Head(ds), recreate)
         IN  IF r.raised THEN r
             ELSE CreateDirsLoop(r.fs, r.ino, Tail(ds), recreate)

\* convert_annotations_yolo.py:36: create_dirs(new_annotation_dirs, True).
\* The five paths are distinct and none lies below another, so the order
\* in which unique() lists them changes nothing but the inode numbers; the
\* order of the list is taken.
ConvertCreateDirs ==
    /\ pc = "create_dirs"
    /\ LET r == CreateDirsLoop(fs, nextIno, new_annotation_dirs, TRUE)
       IN  /\ fs' = OnError(fs, r.fs)
           /\ nextIno' = r.ino
           /\ IF r.raised
              THEN /\ log' = Append(log, "Cannot create directory")
                   /\ status' = Some(-1)
                   /\ pc' = "exited"
              ELSE /\ pc' = "dispatch"
                   /\ UNCHANGED <<log, status>>
    /\ UNCHANGED <<args, todo, done, ret, fs0, registry, self, calls,
                   workers>>

\* convert_annotations_yolo.py:60-63: Parallel(..)(delayed(process)(path)
\* for path in annotation_paths): one task per path.
NewTask ==
    [pc |-> "image", shape0 |-> None, labels |-> <<>>, k |-> 0,
     reads |-> {}, writes |-> {}]

ConvertDispatch ==
    /\ pc = "dispatch"
    /\ workers' = [p \in todo |-> NewTask]
    /\ pc' = "parallel"
    /\ UNCHANGED <<fs, nextIno, args, todo, done, ret, log, status, fs0,
                   registry, self, calls>>

Running(p, at) ==
    /\ pc = "parallel"
    /\ p \in DOMAIN workers
    /\ workers[p].pc = at

\* convert_annotations_yolo.py:41-44: ImageInfo.from_image_file reads the
\* image file; it raises when there is no such file.
ProcessImage(p) ==
    /\ Running(p, "image")
    /\ LET image == ImageOf(p)
       IN  workers' =
               IF IsFile(fs, image)
               THEN [workers EXCEPT
                        ![p].pc = "read",
                        ![p].shape0 = Some(image),
                        ![p].reads = @ \cup {image}]
               ELSE [workers EXCEPT ![p].pc = "raised"]
    /\ UNCHANGED <<fs, nextIno, pc, args, todo, done, ret, log, status, fs0,
                   registry, self, calls>>

\* np.array(rows, dtype=np.float32) raises ValueError when the rows differ
\* in length.
Ragged(rows) == \E i, j \in 1..Len(rows) : rows[i] # rows[j]

\* convert_annotations_yolo.py:50-51
ProcessRead(p) ==
    /\ Running(p, "read")
    /\ workers' =
           IF IsFile(fs, p) /\ ~Ragged(fs[p].data)
           THEN [workers EXCEPT
                    ![p].pc = "open",
                    ![p].labels = fs[p].data,
                    ![p].reads = @ \cup {p}]
           ELSE IF IsFile(fs, p)
           THEN [workers EXCEPT ![p].pc = "raised", ![p].reads = @ \cup {p}]
           ELSE [workers EXCEPT ![p].pc = "raised"]
    /\ UNCHANGED <<fs, nextIno, pc, args, todo, done, ret, log, status, fs0,
                   registry, self, calls>>

\* open(path, "w"): raises when the directory is missing or the path is a
\* directory; creates the file or empties it.
OpenWRaises(f, q) == ~IsDir(f, Parent(q)) \/ IsDir(f, q)

OpenW(f, n, q) ==
    [f EXCEPT ![q] = [kind |-> "file",
                      ino |-> IF IsFile(f, q) THEN f[q].ino ELSE n,
                      data |-> <<>>]]

\* convert_annotations_yolo.py:45, 53
ProcessOpen(p) ==
    /\ Running(p, "open")
    /\ LET new == OutputOf(p)
       IN  IF OpenWRaises(fs, new)
           THEN /\ workers' = [workers EXCEPT ![p].pc = "raised"]
                /\ UNCHANGED <<fs, nextIno>>
           ELSE /\ fs' = OpenW(fs, nextIno, new)
                /\ nextIno' = IF IsFile(fs, new) THEN nextIno ELSE nextIno + 1
                /\ workers' = [workers EXCEPT
                                  ![p].pc = "write",
                                  ![p].writes = @ \cup {new}]
    /\ UNCHANGED <<pc, args, todo, done, ret, log, status, fs0, registry,
                   self, calls>>

\* convert_annotations_yolo.py:55-56: the line written for row i: the class
\* and the box of the row, normalised by the shape of the image.
YoloLine(p, i, shape0) == [of |-> <<p, i>>, shape |-> shape0]

\* convert_annotations_yolo.py:54-57: one row of the loop.  l[1] of a short
\* row raises IndexError; the `with` closes the file with what was written.
ProcessWrite(p) ==
    /\ Running(p, "write")
    /\ workers[p].k < Len(workers[p].labels)
    /\ LET new == OutputOf(p)
           i == workers[p].k + 1
       IN  IF workers[p].labels[i] = "short"
           THEN /\ workers' = [workers EXCEPT ![p].pc = "raised"]
                /\ UNCHANGED fs
           ELSE /\ fs' = [fs EXCEPT ![new].data =
                             Append(@, YoloLine(p, i, workers[p].shape0))]
                /\ workers' = [workers EXCEPT ![p].k = i]
    /\ UNCHANGED <<nextIno, pc, args, todo, done, ret, log, status, fs0,
                   registry, self, calls>>

\* convert_annotations_yolo.py:53-57: the loop is over, the `with` closes
\* the file and process returns.
ProcessReturn(p) ==
    /\ Running(p, "write")
    /\ workers[p].k = Len(workers[p].labels)
    /\ workers' = [workers EXCEPT ![p].pc = "done"]
    /\ UNCHANGED <<fs, nextIno, pc, args, todo, done, ret, log, status, fs0,
                   registry, self, calls>>

Finished(at) == {p \in DOMAIN workers : workers[p].pc = at}

\* convert_annotations_yolo.py:61-63: Parallel returns when every task has
\* returned, and raises, ending the script and its workers, when a task has
\* raised.
ConvertEnd ==
    /\ pc = "parallel"
    /\ \/ Finished("done") = DOMAIN workers
       \/ Finished("raised") # {}
    /\ status' = IF Finished("raised") # {} THEN Some(1) ELSE Some(0)
    /\ pc' = "exited"
    /\ UNCHANGED <<fs, nextIno, args, todo, done, ret, log, fs0, registry,
                   self, calls, workers>>

NextConvert ==
    \/ ConvertGlob
    \/ ConvertCreateDirs
    \/ ConvertDispatch
    \/ \E p \in ConvertPlaces : ProcessImage(p)
    \/ \E p \in ConvertPlaces : ProcessRead(p)
    \/ \E p \in ConvertPlaces : ProcessOpen(p)
    \/ \E p \in ConvertPlaces : ProcessWrite(p)
    \/ \E p \in ConvertPlaces : ProcessReturn(p)
    \/ ConvertEnd

SpecConvert == InitConvert /\ [][NextConvert]_vars

Tasks == DOMAIN workers

\* What a task is to read and to write.
OwnInput(p) == {p}
OwnOutput(p) == {OutputOf(p)}

\* The tasks' outputs are distinct, no file is opened for writing by two
\* tasks, and no task writes a file that a task reads.
Disjoint ==
    /\ \A p, q \in Tasks :
          p # q =>
              /\ OutputOf(p) # OutputOf(q)
              /\ workers[p].writes \cap workers[q].writes = {}
    /\ \A p, q \in Tasks : workers[p].writes \cap workers[q].reads = {}
    /\ \A p \in Tasks : workers[p].writes \subseteq OwnOutput(p)

\* No annotation file and no image has changed.
InputsKept ==
    \A p \in ConvertPlaces \cup {ImageOf(q) : q \in ConvertPlaces} :
        fs[p] = fs0[p]

\* The output of task p holds the lines of the first n rows of its input.
LinesOf(p, n) ==
    /\ IsFile(fs, OutputOf(p))
    /\ Len(fs[OutputOf(p)].data) = n
    /\ \A i \in 1..n :
          fs[OutputOf(p)].data[i] = YoloLine(p, i, Some(ImageOf(p)))

Opened == {p \in Tasks : workers[p].writes # {}}

C11_WitnessDone ==
    /\ pc = "exited"
    /\ status = Some(0)
    /\ \E p, q \in Tasks :
          /\ p # q
          /\ LinesOf(p, 2)
          /\ LinesOf(q, 2)

(***************************************************************************)
(* mlp.py: Mlp                                                             *)
(*                                                                         *)
(* A tensor is modelled by its shape, a sequence of dimensions.  A layer   *)
(* is a record; applying a layer to a shape gives the shape of the result  *)
(* or None when torch raises.                                              *)
(***************************************************************************)
MaxFeatures == 2
MaxRank == 2

\* The sizes a leading dimension of the input may have.
Sizes == {1, 3}

\* `a or b` that takes b for None alone.
OrNoneOnly(a, b) == IF a = None THEN b ELSE a.some

\* The python expression `a or b` for an Optional[int] a and an int b: b
\* when a is None or 0.
Or(a, b) == IF a = None \/ a = Some(0) THEN b ELSE a.some

\* torchkit.core.utils.to_2tuple is not among the sources.  It is modelled
\* as: a scalar is repeated.
to_2tuple(x) == <<x, x>>

\* torch.nn.Linear(in_features, out_features), act_layer(), nn.Dropout(p)
Linear(in_features, out_features) ==
    [kind |-> "Linear", in_features |-> in_features,
     out_features |-> out_features]

GELU == [kind |-> "GELU"]

Dropout(p) == [kind |-> "Dropout", p |-> p]

\* layer(x).  Linear takes a tensor whose last dimension is in_features and
\* replaces that dimension by out_features; it raises for any other tensor.
\* The activation and the dropout keep the shape.
Apply(layer, x) ==
    IF layer.kind = "Linear"
    THEN IF x # <<>> /\ x[Len(x)] = layer.in_features
         THEN Some(SubSeq(x, 1, Len(x) - 1) \o <<layer.out_features>>)
         ELSE None
    ELSE Some(x)

Shapes ==
    {lead \o <<last>> :
        lead \in SeqsUpTo(Sizes, MaxRank), last \in 1..MaxFeatures}

InitMlp ==
    /\ args \in [in_features : 1..MaxFeatures,
                 hidden_features : {None} \cup {Some(n) : n \in 0..MaxFeatures},
                 out_features : {None} \cup {Some(n) : n \in 0..MaxFeatures},
                 drop : {"0.0", "0.5"},
                 input : Shapes,
                 x : {None}]
    /\ pc = "__init__"
    /\ self = NoSelf
    /\ calls = <<>>
    /\ ret = None
    /\ fs = <<>>
    /\ nextIno = 0
    /\ todo = <<>>
    /\ done = <<>>
    /\ log = <<>>
    /\ status = None
    /\ fs0 = fs
    /\ registry = NoRegistry
    /\ workers = NoWorkers

\* mlp.py:31-48: Mlp.__init__
MlpInit ==
    /\ pc = "__init__"
    /\ LET in_features == args.in_features
           out_features == Or(args.out_features, in_features)
           hidden_features == Or(args.hidden_features, in_features)
           drop_probs == to_2tuple(args.drop)
       IN  self' = [fc1 |-> Linear(in_features, hidden_features),
                    act |-> GELU,
                    drop1 |-> Dropout(drop_probs[1]),
                    fc2 |-> Linear(hidden_features, out_features),
                    drop2 |-> Dropout(drop_probs[2])]
    /\ pc' = "forward"
    /\ UNCHANGED <<fs, nextIno, args, todo, done, ret, log, status, fs0,
                   registry, calls, workers>>

\* mlp.py:52: forward(x) is called with the input
MlpForward ==
    /\ pc = "forward"
    /\ args' = [args EXCEPT !.x = Some(args.input)]
    /\ pc' = "fc1"
    /\ UNCHANGED <<fs, nextIno, todo, done, ret, log, status, fs0, registry,
                   self, calls, workers>>

\* x = self.<layer>(x); `then` is the line that follows.
Layer(at, then) ==
    /\ pc = at
    /\ calls' = Append(calls, at)
    /\ LET y == Apply(self[at], args.x.some)
       IN  /\ args' = [args EXCEPT !.x = y]
           /\ pc' = IF y = None THEN "raised" ELSE then
    /\ UNCHANGED <<fs, nextIno, todo, done, ret, log, status, fs0, registry,
                   self, workers>>

\* mlp.py:53-58: the lines of forward, in order
ForwardOrder == <<"fc1", "act", "drop1", "fc2", "drop2", "return">>

After(at) ==
    ForwardOrder[1 + CHOOSE i \in 1..Len(ForwardOrder) : ForwardOrder[i] = at]

\* mlp.py:53
Fc1 == Layer("fc1", After("fc1"))

\* mlp.py:54
Act == Layer("act", After("act"))

\* mlp.py:55
Drop1 == Layer("drop1", After("drop1"))

\* mlp.py:56
Fc2 == Layer("fc2", After("fc2"))

\* mlp.py:57
Drop2 == Layer("drop2", After("drop2"))

\* mlp.py:58: return x
MlpReturn ==
    /\ pc = "return"
    /\ ret' = args.x
    /\ pc' = "returned"
    /\ UNCHANGED <<fs, nextIno, args, todo, done, log, status, fs0, registry,
                   self, calls, workers>>

NextMlp ==
    \/ MlpInit
    \/ MlpForward
    \/ Fc1
    \/ Act
    \/ Drop1
    \/ Fc2
    \/ Drop2
    \/ MlpReturn

SpecMlp == InitMlp /\ [][NextMlp]_vars

Constructed == pc # "__init__"

Layers == <<"fc1", "act", "drop1", "fc2", "drop2">>

Leading(x) == SubSeq(x, 1, Len(x) - 1)

\* The defaults are in place, the layers are applied in the order fc1, act,
\* drop1, fc2, drop2, and an input whose last dimension is in_features is
\* taken to the end, where the output has the leading dimensions of the
\* input followed by `last`.
MlpShape(last) ==
    /\ Constructed =>
          /\ args.hidden_features = None =>
                self.fc1.out_features = args.in_features
          /\ args.out_features = None =>
                self.fc2.out_features = args.in_features
    /\ IsPrefix(calls, Layers)
    /\ pc \in {"return", "returned"} => calls = Layers
    /\ args.input[Len(args.input)] = args.in_features =>
          /\ pc # "raised"
          /\ pc = "returned" => ret = Some(Leading(args.input) \o <<last>>)

\* C12 (as claimed): hidden_features and out_features default to
\* in_features when they are None; forward applies fc1, act, drop1, fc2,
\* drop2 in that order; and for an input whose last dimension is
\* in_features the output has the leading dimensions of the input and the
\* last dimension out_features (in_features when out_features is None).
C12_AsClaimed ==
    MlpShape(IF args.out_features = None THEN args.in_features
             ELSE args.out_features.some)

\* C12 (amended): as above, but hidden_features and out_features default to
\* in_features when they are None or 0, and the last dimension of the
\* output is out_features, or in_features when out_features is None or 0.
C12_Shape ==
    /\ MlpShape(Or(args.out_features, args.in_features))
    /\ Constructed =>
          /\ args.hidden_features = Some(0) =>
                self.fc1.out_features = args.in_features
          /\ args.out_features = Some(0) =>
                self.fc2.out_features = args.in_features

\* C12 witness: forward has returned for an input of rank three whose last
\* dimension is in_features, with hidden_features None and an out_features
\* that differs from in_features.
C12_Witness ==
    /\ pc = "returned"
    /\ Len(args.input) = 3
    /\ args.hidden_features = None
    /\ args.out_features \notin {None, Some(0), Some(args.in_features)}
    /\ ret = Some(Leading(args.input) \o <<args.out_features.some>>)

\* C12 witness, the default: forward has returned with out_features None.
C12_WitnessDefault ==
    /\ pc = "returned"
    /\ args.out_features = None
    /\ args.hidden_features \notin {None, Some(0), Some(args.in_features)}
    /\ ret = Some(args.input)

Spec == SpecCreateDirs

=============================================================================
